---- MODULE Spec2Model ----
(***************************************************************************)
(* A model of gurgle: the Limit tracker (config.rs), the Checker           *)
(* (checker.rs), compilation (lib.rs, expr.rs), rolling (expr.rs) and the  *)
(* lazily cached reads of a rolling result (roll.rs).                      *)
(*                                                                         *)
(* Machine integers.  TLC's integers are 32 bits wide, so the 64-bit words *)
(* of the program are modelled IntBits wide: i64 is the two's complement   *)
(* range I64_MIN..I64_MAX and u64 the range 0..U64_MAX of that width.  The *)
(* default limits (20, 1000, 100, 65536) are the program's own numbers.    *)
(* An arithmetic overflow has the two outcomes a Rust build can produce:   *)
(* a panic (overflow checks on, the debug profile) or a wrapped result     *)
(* (overflow checks off, the release profile); overflow_checks says which  *)
(* build runs.                                                             *)
(***************************************************************************)
EXTENDS Integers, Sequences, FiniteSets, TLC

VARIABLES
    overflow_checks,  \* the build: TRUE panics on overflow, FALSE wraps
    limit,            \* SpecLimit: the Limit object
    call,             \* SpecLimit: the last call made on it and its result
    chk,              \* SpecCheck: a Checker, the result given, the answer
    cmd,              \* the command text given to compile, as its pairs
    config,           \* the Config given to compile
    stage,            \* "src", "compiled", "failed" or "rolled"
    gurgle,           \* what compile_with_config returned
    groll,            \* the GurgleRoll: [result, checker]
    cache,            \* the AtomicPtr of each caching node: 0 is null
    heap,             \* the boxes made by cache_it, by pointer
    th,               \* each thread: its call stack inside value()
    first,            \* per node, the number its first finished read gave
    lastRead,         \* the read that finished last
    ub,               \* a freed box was read or freed again
    rolls,            \* SpecRolls: the results rolled of one command
    lang              \* SpecLang: the language globals of detail.rs

rollVars == <<cmd, config, stage, gurgle, groll, cache, heap, th, first,
              lastRead, ub, rolls>>
vars == <<overflow_checks, limit, call, chk, cmd, config, stage, gurgle,
          groll, cache, heap, th, first, lastRead, ub, rolls, lang>>

IntBits == 24

U64_MAX == 2^IntBits - 1
I64_MAX == 2^(IntBits - 1) - 1
I64_MIN == -(2^(IntBits - 1))

\* The outcome of an integer operation: a value, or a panic; wrap is set
\* when the value is the wrapped one of an overflowing operation.
Val(v) == [panic |-> FALSE, v |-> v, wrap |-> FALSE]
Wrapped(v) == [panic |-> FALSE, v |-> v, wrap |-> TRUE]
Panic == [panic |-> TRUE, v |-> 0, wrap |-> FALSE]

\* `x as u64` of an i64, and `x as i64` of a u64: two's complement, no check.
AsU64(x) == IF x < 0 THEN x + 2^IntBits ELSE x
AsI64(x) == IF x > I64_MAX THEN x - 2^IntBits ELSE x

\* i64::abs: i64::MIN has no absolute value; the build panics or gives i64::MIN.
AbsI64(x) ==
    IF x = I64_MIN
    THEN IF overflow_checks THEN Panic ELSE Wrapped(I64_MIN)
    ELSE Val(IF x < 0 THEN -x ELSE x)

\* u64 `+`
AddU64(a, b) ==
    IF a + b > U64_MAX
    THEN IF overflow_checks THEN Panic ELSE Wrapped((a + b) % 2^IntBits)
    ELSE Val(a + b)

(***************************************************************************)
(* config.rs: Config and Limit                                             *)
(***************************************************************************)
Config(ic, ds, rt, nv) ==
    [max_item_count |-> ic, max_dice_sides |-> ds,
     max_roll_times |-> rt, max_number_item_value |-> nv]

DEFAULT_CONFIG == Config(20, 1000, 100, 65536)

\* Config::max_item_count .. Config::max_number_item_value: the setters
SetMaxItemCount(self, c) == [self EXCEPT !.max_item_count = c]
\* (mutant) the setter of max_dice_sides also sets max_roll_times
SetMaxDiceSides_Mut(self, c) ==
    [self EXCEPT !.max_dice_sides = c, !.max_roll_times = c]

SetMaxDiceSides(self, c) == [self EXCEPT !.max_dice_sides = c]
SetMaxRollTimes(self, c) == [self EXCEPT !.max_roll_times = c]
SetMaxNumberItemValue(self, c) == [self EXCEPT !.max_number_item_value = c]

LimitNew(c) == [config |-> c, item_count |-> 0, roll_times |-> 0]

\* (mutant) the comparison made inclusive
check_item_count_Mut(self) ==
    IF self.item_count >= self.config.max_item_count
    THEN "ItemCountLimitExceeded" ELSE "Ok"

check_item_count(self) ==
    IF self.item_count > self.config.max_item_count
    THEN "ItemCountLimitExceeded" ELSE "Ok"

check_roll_times(self) ==
    IF self.roll_times > self.config.max_roll_times
    THEN "DiceRollTimesLimitExceeded" ELSE "Ok"

\* Each operation gives the Limit after it and its result: "Ok", the name
\* of the CompileError, or "Panic".
inc_item_count(self) ==
    LET n == AddU64(self.item_count, 1)
        l == [self EXCEPT !.item_count = n.v]
    IN  IF n.panic THEN [limit |-> self, res |-> "Panic"]
        ELSE [limit |-> l, res |-> check_item_count(l)]

inc_roll_times(self, times) ==
    LET n == AddU64(self.roll_times, times)
        l == [self EXCEPT !.roll_times = n.v]
    IN  IF n.panic THEN [limit |-> self, res |-> "Panic"]
        ELSE [limit |-> l, res |-> check_roll_times(l)]

check_number_item(self, num) ==
    LET a == AbsI64(num)
    IN  IF a.panic THEN "Panic"
        ELSE IF AsU64(a.v) > self.config.max_number_item_value
             THEN "NumberItemOutOfRange" ELSE "Ok"

\* (mutant) the sided limit tested before the roll-times limit
check_dice_Mut(self, times, sided) ==
    IF times <= 0 \/ sided <= 0 THEN "DiceRollOrSidedNegative"
    ELSE IF AsU64(sided) > self.config.max_dice_sides
         THEN "DiceSidedCountLimitExceeded"
    ELSE IF AsU64(times) > self.config.max_roll_times
         THEN "DiceRollTimesLimitExceeded"
    ELSE "Ok"

check_dice(self, times, sided) ==
    IF times <= 0 \/ sided <= 0 THEN "DiceRollOrSidedNegative"
    ELSE IF AsU64(times) > self.config.max_roll_times
         THEN "DiceRollTimesLimitExceeded"
    ELSE IF AsU64(sided) > self.config.max_dice_sides
         THEN "DiceSidedCountLimitExceeded"
    ELSE "Ok"

\* Result::and: the first error, else the second result
check(self) ==
    IF check_item_count(self) # "Ok" THEN check_item_count(self)
    ELSE check_roll_times(self)

(***************************************************************************)
(* SpecLimit: one Limit object and the calls its owner can make on it.     *)
(***************************************************************************)
\* The configurations tried: the defaults, small limits, and the widest.
SmallConfig == Config(2, 3, 4, 5)
WideConfig == Config(U64_MAX, U64_MAX, U64_MAX, U64_MAX)
Configs == {DEFAULT_CONFIG, SmallConfig, WideConfig}

\* Arguments tried: the limits' own values, their neighbours, the extremes.
NumberArgs == {I64_MIN, -65537, -65536, -6, 0, 5, 65536, 65537, I64_MAX}
TimesArgs == {I64_MIN, -10, 0, 3, 100, 101, I64_MAX}
SidedArgs == {-1, 0, 3, 6, 10, 1001, I64_MAX}
RollIncArgs == {1, 3, 100, I64_MAX}

MaxItemIncs == 22
MaxRollIncs == 3

\* the variables of compiling and rolling, where nothing is compiled
NoRoll ==
    /\ cmd = <<>> /\ config = DEFAULT_CONFIG /\ stage = "none"
    /\ gurgle = <<>> /\ groll = <<>> /\ cache = <<>> /\ heap = <<>>
    /\ th = <<>> /\ first = <<>> /\ lastRead = <<>> /\ ub = FALSE
    /\ rolls = <<>>

NoCall == [op |-> "new", a |-> 0, b |-> 0, res |-> "Ok", incs |-> 0, rincs |-> 0]

InitLimit ==
    /\ overflow_checks \in BOOLEAN
    /\ \E c \in Configs : limit = LimitNew(c)
    /\ call = NoCall
    /\ chk = <<>>
    /\ NoRoll
    /\ lang = <<>>

IncItemCount ==
    /\ call.incs < MaxItemIncs
    /\ call.res # "Panic"
    /\ LET r == inc_item_count(limit)
       IN  /\ limit' = r.limit
           /\ call' = [call EXCEPT !.op = "inc_item_count", !.a = 0, !.b = 0,
                                   !.res = r.res, !.incs = @ + 1]
    /\ UNCHANGED <<lang, overflow_checks, chk, rollVars>>

IncRollTimes ==
    /\ call.rincs < MaxRollIncs
    /\ call.res # "Panic"
    /\ \E times \in RollIncArgs :
         LET r == inc_roll_times(limit, times)
         IN  /\ limit' = r.limit
             /\ call' = [call EXCEPT !.op = "inc_roll_times", !.a = times,
                                     !.b = 0, !.res = r.res, !.rincs = @ + 1]
    /\ UNCHANGED <<lang, overflow_checks, chk, rollVars>>

CheckNumberItem ==
    /\ call.res # "Panic"
    /\ \E num \in NumberArgs :
         call' = [call EXCEPT !.op = "check_number_item", !.a = num, !.b = 0,
                              !.res = check_number_item(limit, num)]
    /\ UNCHANGED <<lang, overflow_checks, limit, chk, rollVars>>

CheckDice ==
    /\ call.res # "Panic"
    /\ \E times \in TimesArgs, sided \in SidedArgs :
         call' = [call EXCEPT !.op = "check_dice", !.a = times, !.b = sided,
                              !.res = check_dice(limit, times, sided)]
    /\ UNCHANGED <<lang, overflow_checks, limit, chk, rollVars>>

Check ==
    /\ call.res # "Panic"
    /\ call' = [call EXCEPT !.op = "check", !.a = 0, !.b = 0, !.res = check(limit)]
    /\ UNCHANGED <<lang, overflow_checks, limit, chk, rollVars>>

NextLimit ==
    \/ IncItemCount
    \/ IncRollTimes
    \/ CheckNumberItem
    \/ CheckDice
    \/ Check

SpecLimit == InitLimit /\ [][NextLimit]_vars

\* C5: the item-count limit is inclusive: the k-th inc_item_count on a new
\* Limit succeeds exactly when k <= max_item_count, and otherwise fails with
\* ItemCountLimitExceeded; under the defaults the 20th item passes and the
\* 21st is rejected.
C5_ItemCountInclusive ==
    call.op = "inc_item_count" =>
        /\ limit.item_count = call.incs
        /\ (call.incs <= limit.config.max_item_count => call.res = "Ok")
        /\ (call.incs > limit.config.max_item_count
                => call.res = "ItemCountLimitExceeded")
        /\ (limit.config = DEFAULT_CONFIG => (call.res = "Ok" <=> call.incs <= 20))

C5_Witness ==
    /\ call.op = "inc_item_count"
    /\ limit.config = DEFAULT_CONFIG
    /\ call.incs = 21
    /\ call.res = "ItemCountLimitExceeded"

\* C6: check_dice decides in a fixed order: non-positive times or sided
\* first (on the signed values), then times over max_roll_times, then sided
\* over max_dice_sides, else Ok.
C6_CheckDiceOrder ==
    call.op = "check_dice" =>
        call.res =
            IF call.a <= 0 \/ call.b <= 0 THEN "DiceRollOrSidedNegative"
            ELSE IF call.a > limit.config.max_roll_times
                 THEN "DiceRollTimesLimitExceeded"
            ELSE IF call.b > limit.config.max_dice_sides
                 THEN "DiceSidedCountLimitExceeded"
            ELSE "Ok"

C6_Witness ==
    /\ call.op = "check_dice"
    /\ limit.config = DEFAULT_CONFIG
    /\ call.a = 101 /\ call.b = 1001
    /\ call.res = "DiceRollTimesLimitExceeded"

\* C7: check_number_item(x) is NumberItemOutOfRange exactly when
\* |x| > max_number_item_value and Ok otherwise, for every i64 (i64::MIN
\* included) and every limit, and never panics.
C7_NumberRangeTotal ==
    call.op = "check_number_item" =>
        call.res =
            IF (IF call.a < 0 THEN -call.a ELSE call.a)
                   > limit.config.max_number_item_value
            THEN "NumberItemOutOfRange" ELSE "Ok"

(***************************************************************************)
(* checker.rs: Checker::check, and SpecCheck, which applies it to a        *)
(* checker and a result drawn from the values below.                       *)
(***************************************************************************)
Compares == {"Gte", "Gt", "Lte", "Lt", "Eq"}

\* i64::cmp
Cmp(a, b) == IF a > b THEN "Greater" ELSE IF a < b THEN "Less" ELSE "Equal"

\* (mutant) an equal result also passes Gt
Checker_check_Mut(self, result) ==
    CASE Cmp(result, self.target) = "Greater" -> self.compare \in {"Gte", "Gt"}
      [] Cmp(result, self.target) = "Less" -> self.compare \in {"Lte", "Lt"}
      [] Cmp(result, self.target) = "Equal" -> self.compare \in {"Gte", "Gt", "Lte", "Eq"}

Checker_check(self, result) ==
    CASE Cmp(result, self.target) = "Greater" -> self.compare \in {"Gte", "Gt"}
      [] Cmp(result, self.target) = "Less" -> self.compare \in {"Lte", "Lt"}
      [] Cmp(result, self.target) = "Equal" -> self.compare \in {"Gte", "Lte", "Eq"}

TargetArgs == {I64_MIN, -1, 0, 10, I64_MAX}
ResultArgs == {I64_MIN, -1, 0, 9, 10, 11, I64_MAX}

InitCheck ==
    /\ overflow_checks \in BOOLEAN
    /\ limit = LimitNew(DEFAULT_CONFIG)
    /\ call = NoCall
    /\ \E c \in Compares, t \in TargetArgs, r \in ResultArgs :
         chk = [checker |-> [compare |-> c, target |-> t], result |-> r,
                done |-> FALSE, out |-> FALSE]
    /\ NoRoll
    /\ lang = <<>>

CheckerCheck ==
    /\ ~chk.done
    /\ chk' = [chk EXCEPT !.done = TRUE,
                          !.out = Checker_check(chk.checker, chk.result)]
    /\ UNCHANGED <<lang, overflow_checks, limit, call, rollVars>>

NextCheck == CheckerCheck

SpecCheck == InitCheck /\ [][NextCheck]_vars

\* C8: Checker::check(result) is the integer comparison the comparator
\* names: Gte is >=, Gt is >, Lte is <=, Lt is <, Eq is =.
C8_CheckIsComparison ==
    chk.done =>
        chk.out =
            CASE chk.checker.compare = "Gte" -> chk.result >= chk.checker.target
              [] chk.checker.compare = "Gt" -> chk.result > chk.checker.target
              [] chk.checker.compare = "Lte" -> chk.result <= chk.checker.target
              [] chk.checker.compare = "Lt" -> chk.result < chk.checker.target
              [] chk.checker.compare = "Eq" -> chk.result = chk.checker.target

C8_Witness ==
    /\ chk.done
    /\ chk.checker = [compare |-> "Gte", target |-> 10]
    /\ chk.result = 10
    /\ chk.out = TRUE

(***************************************************************************)
(* Compilation: lib.rs compile_with_config, expr.rs from_pair.             *)
(*                                                                         *)
(* A command is what the pest grammar hands over: the pairs of the expr    *)
(* rule in source order (items and operators, a parenthesised item holding *)
(* the pairs of its inner expr) and the optional checker pair.  Number     *)
(* texts are given by the i64 that str::parse::<i64> makes of them.        *)
(***************************************************************************)
Operators == {"Add", "Minus", "Multiply"}
PostProcessors == {"Sum", "Avg", "Max", "Min"}

\* pairs
NumberPair(x) == [rule |-> "number", x |-> x]
DicePair(times, sided, pp) ==
    [rule |-> "dice", times |-> times, sided |-> sided, pp |-> pp]
ParenPair(inner) == [rule |-> "expr", inner |-> inner]
OpPair(op) == [rule |-> "operator", op |-> op]
CheckerPair(compare, target) == [compare |-> compare, target |-> target]
Command(expr, checker) == [expr |-> expr, checker |-> checker]

\* Item, and the BinaryTreeNode<Item, Operator> of tree.rs
Number(x) == [item |-> "Number", x |-> x]
Dice(times, sided, pp) ==
    [item |-> "Dice", times |-> times, sided |-> sided, pp |-> pp]
Parentheses(e) == [item |-> "Parentheses", e |-> e]
Leaf(t) == [node |-> "Leaf", item |-> t]
Tree(left, mid, right) ==
    [node |-> "Tree", left |-> left, mid |-> mid, right |-> right]

\* Binding power: Multiply binds tighter than Add and Minus.
BindingPower(op) == IF op = "Multiply" THEN 2 ELSE 1

\* Precedence climbing over the leaves and operators of one level:
\* rest is <<op, node, op, node, ...>>.  Operators of binding power >= min
\* are folded into lhs from the left; a right operand first takes every
\* following operator that binds tighter than its own.
RECURSIVE Climb(_, _, _)
RECURSIVE ClimbRhs(_, _, _)
\* (mutant) a right operand also takes the operators that bind as tightly
ClimbRhs_Mut(rhs, rest, power) ==
    IF rest = <<>> \/ BindingPower(rest[1].op) < power
    THEN [node |-> rhs, rest |-> rest]
    ELSE LET c == Climb(rhs, rest, power)
         IN  ClimbRhs(c.node, c.rest, power)

ClimbRhs(rhs, rest, power) ==
    IF rest = <<>> \/ BindingPower(rest[1].op) <= power
    THEN [node |-> rhs, rest |-> rest]
    ELSE LET c == Climb(rhs, rest, power + 1)
         IN  ClimbRhs(c.node, c.rest, power)

Climb(lhs, rest, min) ==
    IF rest = <<>> \/ BindingPower(rest[1].op) < min
    THEN [node |-> lhs, rest |-> rest]
    ELSE LET op == rest[1].op
             r == ClimbRhs(rest[2], SubSeq(rest, 3, Len(rest)), BindingPower(op))
         IN  Climb(Tree(lhs, op, r.node), r.rest, min)

\* Item::from_pair and the item step of AstTreeNode::from_pair: the item's
\* own validation, then the item count, then (a dice) the roll times.
\* Gives the Limit after it, the result and the item.
RECURSIVE from_pair(_, _)
RECURSIVE Primaries(_, _, _)
Item_from_pair(pair, l) ==
    CASE pair.rule = "number" ->
           LET c == check_number_item(l, pair.x)
               i == inc_item_count(l)
           IN  IF c # "Ok" THEN [res |-> c, limit |-> l, item |-> <<>>]
               ELSE [res |-> i.res, limit |-> i.limit, item |-> Number(pair.x)]
      [] pair.rule = "dice" ->
           LET c == check_dice(l, pair.times, pair.sided)
               i == inc_item_count(l)
               r == inc_roll_times(i.limit, AsU64(pair.times))
           IN  IF c # "Ok" THEN [res |-> c, limit |-> l, item |-> <<>>]
               ELSE IF i.res # "Ok"
                    THEN [res |-> i.res, limit |-> i.limit, item |-> <<>>]
               ELSE [res |-> r.res, limit |-> r.limit,
                     item |-> Dice(AsU64(pair.times), AsU64(pair.sided), pair.pp)]
      [] pair.rule = "expr" ->
           LET e == from_pair(pair.inner, l)
           IN  [res |-> e.res, limit |-> e.limit,
                item |-> IF e.res = "Ok" THEN Parentheses(e.node) ELSE <<>>]

\* The pairs of one level, left to right, up to the first error: each item
\* becomes a leaf, each operator is kept.
Primaries(pairs, l, acc) ==
    IF pairs = <<>> THEN [res |-> "Ok", limit |-> l, toks |-> acc]
    ELSE IF Head(pairs).rule = "operator"
         THEN Primaries(Tail(pairs), l, Append(acc, Head(pairs)))
    ELSE LET s == Item_from_pair(Head(pairs), l)
         IN  IF s.res # "Ok" THEN [res |-> s.res, limit |-> s.limit, toks |-> acc]
             ELSE Primaries(Tail(pairs), s.limit, Append(acc, Leaf(s.item)))

\* AstTreeNode::from_pair(pair, &mut limit)
from_pair(pairs, l) ==
    LET p == Primaries(pairs, l, <<>>)
    IN  IF p.res # "Ok" THEN [res |-> p.res, limit |-> p.limit, node |-> <<>>]
        ELSE [res |-> "Ok", limit |-> p.limit,
              node |-> Climb(p.toks[1], Tail(p.toks), 1).node]

\* Checker::from_pair
Checker_from_pair(pair, l) ==
    LET a == AbsI64(pair.target)
    IN  IF a.panic THEN [res |-> "Panic", checker |-> <<>>]
        ELSE IF AsU64(a.v) > l.config.max_number_item_value
             THEN [res |-> "NumberItemOutOfRange", checker |-> <<>>]
        ELSE [res |-> "Ok",
              checker |-> <<[compare |-> pair.compare, target |-> pair.target]>>]

\* Gurgle::compile_with_config: the result, the Gurgle {expr, checker} of a
\* success (an Option is a sequence of at most one element), and the Limit
\* as the pass left it.
compile_with_config(s, c) ==
    LET e == from_pair(s.expr, LimitNew(c))
        k == Checker_from_pair(s.checker[1], e.limit)
    IN  IF e.res # "Ok"
        THEN [res |-> e.res, expr |-> <<>>, checker |-> <<>>, limit |-> e.limit]
        ELSE IF s.checker = <<>>
             THEN [res |-> "Ok", expr |-> e.node, checker |-> <<>>, limit |-> e.limit]
        ELSE [res |-> k.res, expr |-> IF k.res = "Ok" THEN e.node ELSE <<>>,
              checker |-> k.checker, limit |-> e.limit]

(***************************************************************************)
(* Rolling: expr.rs Dice::roll, Item::roll, AstTreeNode::roll.  A roll     *)
(* gives a tree of the same shape; the caches of its nodes are kept apart, *)
(* in the variable cache.                                                  *)
(***************************************************************************)
MaxFaces == 3
MaxPoints == 4

\* nanorand's generate_range(1..=sided): any face; of a dice of more than
\* MaxFaces sides the lowest and the highest are tried.
Faces(sided) == IF sided <= MaxFaces THEN 1..sided ELSE {1, sided}

DiceRoll(points, pp) == [item |-> "Dice", points |-> points, pp |-> pp]

\* (mutant) generate_range(0..sided): faces counted from 0
Dice_roll_Mut(d) ==
    {DiceRoll(p, d.pp) : p \in [1..d.times -> {f - 1 : f \in Faces(d.sided)}]}

Dice_roll(d) == {DiceRoll(p, d.pp) : p \in [1..d.times -> Faces(d.sided)]}

RECURSIVE AstTreeNode_roll(_)
Item_roll(item) ==
    CASE item.item = "Dice" -> Dice_roll(item)
      [] item.item = "Number" -> {item}
      [] item.item = "Parentheses" ->
           {Parentheses(e) : e \in AstTreeNode_roll(item.e)}

\* (mutant) RollTree::new(self.right.roll(), self.left.roll(), self.mid)
AstTreeNode_roll_Mut(n) ==
    IF n.node = "Leaf" THEN {Leaf(i) : i \in Item_roll(n.item)}
    ELSE {Tree(r, n.mid, l) :
            l \in AstTreeNode_roll(n.left), r \in AstTreeNode_roll(n.right)}

AstTreeNode_roll(n) ==
    IF n.node = "Leaf" THEN {Leaf(i) : i \in Item_roll(n.item)}
    ELSE {Tree(l, n.mid, r) :
            l \in AstTreeNode_roll(n.left), r \in AstTreeNode_roll(n.right)}

\* the number of points a roll of the tree makes
RECURSIVE RollSize(_)
RollSize(n) ==
    IF n.node = "Tree" THEN RollSize(n.left) + RollSize(n.right)
    ELSE CASE n.item.item = "Dice" -> n.item.times
           [] n.item.item = "Number" -> 0
           [] n.item.item = "Parentheses" -> RollSize(n.item.e)

(***************************************************************************)
(* roll.rs: the values.  i64 `+`, `-`, `*` overflow as the build says.     *)
(***************************************************************************)
InI64(x) == I64_MIN <= x /\ x <= I64_MAX
Wrap64(x) == AsI64(x % 2^IntBits)
Abs(x) == IF x < 0 THEN -x ELSE x

AddI64(a, b) ==
    IF InI64(a + b) THEN Val(a + b)
    ELSE IF overflow_checks THEN Panic ELSE Wrapped(Wrap64(a + b))

SubI64(a, b) ==
    IF InI64(a - b) THEN Val(a - b)
    ELSE IF overflow_checks THEN Panic ELSE Wrapped(Wrap64(a - b))

\* whether a * b leaves the i64 range, without forming the product
MulOverflows(a, b) ==
    /\ a # 0 /\ b # 0
    /\ IF (a < 0) = (b < 0)
       THEN Abs(a) > I64_MAX \div Abs(b)
       ELSE Abs(a) > (-I64_MIN) \div Abs(b)

\* (a * b) mod 2^IntBits of two u64, by doubling
RECURSIVE MulModU64(_, _)
MulModU64(a, b) ==
    IF b = 0 THEN 0
    ELSE (2 * MulModU64(a, b \div 2) + (IF b % 2 = 1 THEN a ELSE 0)) % 2^IntBits

MulI64(a, b) ==
    IF ~MulOverflows(a, b) THEN Val(a * b)
    ELSE IF overflow_checks THEN Panic
    ELSE Wrapped(AsI64(MulModU64(AsU64(a), AsU64(b))))

\* u64 Iterator::sum of the first k points
RECURSIVE SumPoints(_, _)
SumPoints(points, k) ==
    IF k = 0 THEN Val(0)
    ELSE LET s == SumPoints(points, k - 1)
             n == AddU64(s.v, points[k])
         IN  IF s.panic \/ n.panic THEN Panic
             ELSE [n EXCEPT !.wrap = s.wrap \/ n.wrap]

NPoints(d) == Cardinality(DOMAIN d.points)
MaxPoint(d) == CHOOSE m \in {d.points[i] : i \in DOMAIN d.points} :
                   \A i \in DOMAIN d.points : d.points[i] <= m
MinPoint(d) == CHOOSE m \in {d.points[i] : i \in DOMAIN d.points} :
                   \A i \in DOMAIN d.points : d.points[i] >= m

\* DiceRoll::calculate_value (a u64)
DiceRoll_calculate_value(d) ==
    LET s == SumPoints(d.points, NPoints(d))
    IN  CASE d.pp = "Sum" -> s
          [] d.pp = "Avg" -> IF s.panic THEN Panic
                             ELSE [s EXCEPT !.v = s.v \div NPoints(d)]
          [] d.pp = "Max" -> Val(MaxPoint(d))
          [] d.pp = "Min" -> Val(MinPoint(d))

\* (mutant) Multiply computed as Add
RollTree_calculate_value_Mut(mid, l, r) ==
    LET x == CASE mid = "Add" -> AddI64(l.v, r.v)
               [] mid = "Minus" -> SubI64(l.v, r.v)
               [] mid = "Multiply" -> AddI64(l.v, r.v)
    IN  IF x.panic THEN Panic
        ELSE [x EXCEPT !.wrap = x.wrap \/ l.wrap \/ r.wrap]

\* RollTree::calculate_value on the values of the two sub-trees
RollTree_calculate_value(mid, l, r) ==
    LET x == CASE mid = "Add" -> AddI64(l.v, r.v)
               [] mid = "Minus" -> SubI64(l.v, r.v)
               [] mid = "Multiply" -> MulI64(l.v, r.v)
    IN  IF x.panic THEN Panic
        ELSE [x EXCEPT !.wrap = x.wrap \/ l.wrap \/ r.wrap]

\* ItemRoll::value of a dice: `dice.value() as i64`
DiceAsI64(u) == [u EXCEPT !.v = AsI64(u.v), !.wrap = u.wrap \/ u.v > I64_MAX]

(***************************************************************************)
(* roll.rs: reading a result.  A node is named by its place: G is the      *)
(* GurgleRoll, a sequence of "L" (left), "R" (right) and "P" (the tree of  *)
(* a Parentheses item) is the place of a RollTreeNode below its root.      *)
(* GurgleRoll, RollTree and DiceRoll each hold an AtomicPtr cache.         *)
(***************************************************************************)
G == <<"G">>

RECURSIVE At(_, _)
At(n, pos) ==
    IF pos = <<>> THEN n
    ELSE At(CASE Head(pos) = "L" -> n.left
              [] Head(pos) = "R" -> n.right
              [] Head(pos) = "P" -> n.item.e,
            Tail(pos))

RECURSIVE Positions(_, _)
Positions(n, pos) ==
    IF n.node = "Tree"
    THEN {pos} \cup Positions(n.left, Append(pos, "L"))
               \cup Positions(n.right, Append(pos, "R"))
    ELSE IF n.item.item = "Parentheses"
         THEN {pos} \cup Positions(n.item.e, Append(pos, "P"))
         ELSE {pos}

Kind(root, id) ==
    IF id = G THEN "Gurgle"
    ELSE IF At(root, id).node = "Tree" THEN "Tree"
    ELSE At(root, id).item.item

CachingIds(root) ==
    {G} \cup {pos \in Positions(root, <<>>) : Kind(root, pos) \in {"Tree", "Dice"}}

\* RollTreeNode::value and ItemRoll::value down to the node that answers: a
\* Parentheses item hands the call to its tree.
RECURSIVE Resolve(_, _)
Resolve(root, pos) ==
    IF Kind(root, pos) = "Parentheses" THEN Resolve(root, Append(pos, "P"))
    ELSE pos

\* The value() calls the closure of a node makes, in order.
Children(root, id) ==
    IF id = G THEN <<Resolve(root, <<>>)>>
    ELSE <<Resolve(root, Append(id, "L")), Resolve(root, Append(id, "R"))>>

\* A call of cache_it: pc is "load" (before cache.load), "deref" (x loaded,
\* not null, before *x), "wait" (in the closure, a call below is running)
\* or "cas" (val computed, before Box::new and compare_exchange).
Frame(id) == [id |-> id, pc |-> "load", x |-> 0, got |-> <<>>, val |-> Val(0)]

\* A Number answers at once, touching no cache.
FillOne(root, f) ==
    LET ch == Children(root, f.id)
        k == Len(f.got) + 1
    IN  IF k <= Len(ch) /\ Kind(root, ch[k]) = "Number"
        THEN [f EXCEPT !.got = Append(@, Val(At(root, ch[k]).item.x))]
        ELSE f

Fill(root, f) == FillOne(root, FillOne(root, f))

\* The closure's value once its calls have answered.
Closure(root, f) ==
    IF f.id = G THEN f.got[1]
    ELSE RollTree_calculate_value(At(root, f.id).mid, f.got[1], f.got[2])

\* The closure of frame f runs on: it calls the next node, or finishes
\* with its value (or panics).
Settle(root, below, f0) ==
    LET f == Fill(root, f0)
        ch == Children(root, f.id)
    IN  IF Len(f.got) = Len(ch)
        THEN IF Closure(root, f).panic
             THEN [panic |-> TRUE, stack |-> <<>>]
             ELSE [panic |-> FALSE,
                   stack |-> Append(below, [f EXCEPT !.pc = "cas",
                                                     !.val = Closure(root, f)])]
        ELSE [panic |-> FALSE,
              stack |-> below \o <<[f EXCEPT !.pc = "wait"],
                                   Frame(ch[Len(f.got) + 1])>>]

Top(t) == th[t].stack[Len(th[t].stack)]
Below(t) == SubSeq(th[t].stack, 1, Len(th[t].stack) - 1)

\* What a read of a box can give: its value; of a freed box, anything.
Garbage == {0, 7}
DerefValues(box) ==
    IF box.live THEN {box.val} ELSE {box.val} \cup {Val(g) : g \in Garbage}

\* The call thread t made returns v (or panics) to its caller.
Finish(t, v) ==
    /\ th' = [th EXCEPT ![t].stack = <<>>, ![t].panicked = v.panic]
    /\ lastRead' = [t |-> t, op |-> th[t].op, id |-> th[t].target, v |-> v,
                    out |-> IF th[t].op = "success" /\ ~v.panic
                            THEN <<Checker_check(groll.checker[1], v.v)>>
                            ELSE <<>>]
    /\ first' = IF th[t].op = "value" /\ ~v.panic /\ first[th[t].target] = <<>>
                THEN [first EXCEPT ![th[t].target] = <<v.v>>]
                ELSE first

Continue(t, s) ==
    IF s.panic THEN Finish(t, Panic)
    ELSE /\ th' = [th EXCEPT ![t].stack = s.stack]
         /\ UNCHANGED <<first, lastRead>>

\* The top frame of t returns v: to the closure that called it (a dice
\* value through ItemRoll::value's cast), or out of the outermost call.
Return(t, v) ==
    IF Below(t) = <<>> THEN Finish(t, v)
    ELSE LET parent == th[t].stack[Len(th[t].stack) - 1]
             v1 == IF Kind(groll.result, Top(t).id) = "Dice"
                   THEN DiceAsI64(v) ELSE v
         IN  Continue(t, Settle(groll.result,
                                SubSeq(th[t].stack, 1, Len(th[t].stack) - 2),
                                [parent EXCEPT !.got = Append(@, v1)]))

MaxReads == 2

CanCall(t) ==
    /\ stage = "rolled"
    /\ th[t].stack = <<>>
    /\ ~th[t].panicked
    /\ th[t].reads < MaxReads

\* value() of the GurgleRoll, of a RollTree or of a DiceRoll
CallValue(t) ==
    /\ CanCall(t)
    /\ \E id \in DOMAIN cache :
         th' = [th EXCEPT ![t].stack = <<Frame(id)>>, ![t].op = "value",
                          ![t].target = id, ![t].reads = @ + 1]
    /\ UNCHANGED <<lang, rolls, overflow_checks, limit, call, chk, cmd,
                   config, stage, gurgle, groll, cache, heap, first, lastRead,
                   ub>>

\* (mutant) success without a checker answers Some(true)
CallSuccess_Mut(t) ==
    /\ CanCall(t)
    /\ IF groll.checker = <<>>
       THEN /\ th' = [th EXCEPT ![t].op = "success", ![t].target = G,
                                ![t].reads = @ + 1]
            /\ lastRead' = [t |-> t, op |-> "success", id |-> G, v |-> Val(0),
                            out |-> <<TRUE>>]
       ELSE /\ th' = [th EXCEPT ![t].stack = <<Frame(G)>>, ![t].op = "success",
                                ![t].target = G, ![t].reads = @ + 1]
            /\ UNCHANGED lastRead
    /\ UNCHANGED <<lang, rolls, overflow_checks, limit, call, chk, cmd,
                   config, stage, gurgle, groll, cache, heap, first, ub>>

\* GurgleRoll::success: None without a checker, else check(self.value())
CallSuccess(t) ==
    /\ CanCall(t)
    /\ IF groll.checker = <<>>
       THEN /\ th' = [th EXCEPT ![t].op = "success", ![t].target = G,
                                ![t].reads = @ + 1]
            /\ lastRead' = [t |-> t, op |-> "success", id |-> G, v |-> Val(0),
                            out |-> <<>>]
       ELSE /\ th' = [th EXCEPT ![t].stack = <<Frame(G)>>, ![t].op = "success",
                                ![t].target = G, ![t].reads = @ + 1]
            /\ UNCHANGED lastRead
    /\ UNCHANGED <<lang, rolls, overflow_checks, limit, call, chk, cmd,
                   config, stage, gurgle, groll, cache, heap, first, ub>>

\* cache_it: `let x = cache.load(SeqCst)`; null: the closure starts
Load(t) ==
    /\ th[t].stack # <<>>
    /\ Top(t).pc = "load"
    /\ LET f == Top(t)
           x == cache[f.id]
           v == DiceRoll_calculate_value(At(groll.result, f.id).item)
       IN  IF x # 0
           THEN /\ th' = [th EXCEPT ![t].stack =
                            Append(Below(t), [f EXCEPT !.pc = "deref", !.x = x])]
                /\ UNCHANGED <<first, lastRead>>
           ELSE IF Kind(groll.result, f.id) = "Dice"
                THEN IF v.panic THEN Finish(t, Panic)
                     ELSE /\ th' = [th EXCEPT ![t].stack =
                                Append(Below(t), [f EXCEPT !.pc = "cas", !.val = v])]
                          /\ UNCHANGED <<first, lastRead>>
           ELSE Continue(t, Settle(groll.result, Below(t), f))
    /\ UNCHANGED <<lang, rolls, overflow_checks, limit, call, chk, cmd,
                   config, stage, gurgle, groll, cache, heap, ub>>

\* cache_it: `*x` of the pointer loaded
Deref(t) ==
    /\ th[t].stack # <<>>
    /\ Top(t).pc = "deref"
    /\ \E v \in DerefValues(heap[Top(t).x]) : Return(t, v)
    /\ ub' = (ub \/ ~heap[Top(t).x].live)
    /\ UNCHANGED <<lang, rolls, overflow_checks, limit, call, chk, cmd,
                   config, stage, gurgle, groll, cache, heap>>

\* (mutant) a failed compare_exchange stores the new pointer all the same
Cas_Mut(t) ==
    /\ th[t].stack # <<>>
    /\ Top(t).pc = "cas"
    /\ LET f == Top(t)
           p == Len(heap) + 1
           box == [val |-> f.val, live |-> TRUE, by |-> t, id |-> f.id,
                   freed_by |-> 0]
           cur == cache[f.id]
       IN  /\ IF cur = 0
              THEN /\ cache' = [cache EXCEPT ![f.id] = p]
                   /\ heap' = Append(heap, box)
                   /\ ub' = ub
              ELSE /\ cache' = [cache EXCEPT ![f.id] = p]
                   /\ heap' = [Append(heap, box) EXCEPT ![cur].live = FALSE,
                                                        ![cur].freed_by = t]
                   /\ ub' = (ub \/ ~heap[cur].live)
           /\ Return(t, f.val)
    /\ UNCHANGED <<lang, rolls, overflow_checks, limit, call, chk, cmd,
                   config, stage, gurgle, groll>>

\* cache_it: Box::into_raw(Box::new(value)), compare_exchange(null, p), and
\* on Err(p) drop(Box::from_raw(p)), where the pattern's p is the pointer
\* compare_exchange found in the cache; then `value`.
Cas(t) ==
    /\ th[t].stack # <<>>
    /\ Top(t).pc = "cas"
    /\ LET f == Top(t)
           p == Len(heap) + 1
           box == [val |-> f.val, live |-> TRUE, by |-> t, id |-> f.id,
                   freed_by |-> 0]
           cur == cache[f.id]
       IN  /\ IF cur = 0
              THEN /\ cache' = [cache EXCEPT ![f.id] = p]
                   /\ heap' = Append(heap, box)
                   /\ ub' = ub
              ELSE /\ cache' = cache
                   /\ heap' = [Append(heap, box) EXCEPT ![cur].live = FALSE,
                                                        ![cur].freed_by = t]
                   /\ ub' = (ub \/ ~heap[cur].live)
           /\ Return(t, f.val)
    /\ UNCHANGED <<lang, rolls, overflow_checks, limit, call, chk, cmd,
                   config, stage, gurgle, groll>>

\* Gurgle::compile_with_config
Compile ==
    /\ stage = "src"
    /\ gurgle' = compile_with_config(cmd, config)
    /\ stage' = IF gurgle'.res = "Ok" THEN "compiled" ELSE "failed"
    /\ UNCHANGED <<lang, rolls, overflow_checks, limit, call, chk, cmd,
                   config, groll, cache, heap, th, first, lastRead, ub>>

\* Gurgle::roll: GurgleRoll::new(self.expr.roll(), self.checker()), every
\* cache AtomicPtr::default().  A roll of more than MaxPoints points is not
\* followed.
Roll ==
    /\ stage = "compiled"
    /\ RollSize(gurgle.expr) <= MaxPoints
    /\ \E r \in AstTreeNode_roll(gurgle.expr) :
         /\ groll' = [result |-> r, checker |-> gurgle.checker]
         /\ cache' = [id \in CachingIds(r) |-> 0]
         /\ first' = [id \in CachingIds(r) |-> <<>>]
    /\ stage' = "rolled"
    /\ UNCHANGED <<lang, rolls, overflow_checks, limit, call, chk, cmd,
                   config, gurgle, heap, th, lastRead, ub>>

Next ==
    \/ Compile
    \/ Roll
    \/ \E t \in DOMAIN th :
         \/ CallValue(t)
         \/ CallSuccess(t)
         \/ Load(t)
         \/ Deref(t)
         \/ Cas(t)

NoRead == [t |-> 0, op |-> "none", id |-> G, v |-> Val(0), out |-> <<>>]
NewThread == [stack |-> <<>>, op |-> "none", target |-> G, reads |-> 0,
              panicked |-> FALSE]

\* A command and a Config are given to compile; n threads hold the result.
InitRun(inputs, n) ==
    /\ overflow_checks \in BOOLEAN
    /\ limit = LimitNew(DEFAULT_CONFIG)
    /\ call = NoCall
    /\ chk = <<>>
    /\ \E i \in inputs : cmd = i[1] /\ config = i[2]
    /\ stage = "src"
    /\ gurgle = <<>> /\ groll = <<>> /\ cache = <<>> /\ heap = <<>>
    /\ th = [t \in 1..n |-> NewThread]
    /\ first = <<>>
    /\ lastRead = NoRead
    /\ ub = FALSE
    /\ rolls = <<>>
    /\ lang = <<>>

(***************************************************************************)
(* Spec: one caller compiles a command, rolls it once and reads the result *)
(* (value() of any node, success()) up to MaxReads times.                  *)
(***************************************************************************)
MaxItems == 3

\* the items commands are built of: "1", "2", "3", "1d2", "(1+2)"
GenItems ==
    {NumberPair(1), NumberPair(2), NumberPair(3), DicePair(1, 2, "Sum"),
     ParenPair(<<NumberPair(1), OpPair("Add"), NumberPair(2)>>)}

\* every expression of n items and the operators between them
RECURSIVE ExprsOf(_)
ExprsOf(n) ==
    IF n = 1 THEN {<<i>> : i \in GenItems}
    ELSE {e \o <<OpPair(o), i>> :
            e \in ExprsOf(n - 1), o \in Operators, i \in GenItems}

GenCommands ==
    UNION {{Command(e, <<>>) : e \in ExprsOf(n)} : n \in 1..MaxItems}

\* item, then n - 1 times `op item`
RECURSIVE Repeat(_, _, _)
Repeat(item, op, n) ==
    IF n = 1 THEN <<item>>
    ELSE Repeat(item, op, n - 1) \o <<OpPair(op), item>>

\* Commands with a checker, the commands of lib.rs's tests, and commands at
\* the limits, each with the Config it is compiled under.
Curated ==
    {<<Command(<<NumberPair(10)>>, <<CheckerPair("Gte", 10)>>), DEFAULT_CONFIG>>,
     <<Command(<<NumberPair(9)>>, <<CheckerPair("Gt", 10)>>), DEFAULT_CONFIG>>,
     <<Command(<<NumberPair(10), OpPair("Minus"), NumberPair(3), OpPair("Minus"),
                 NumberPair(2)>>, <<>>), DEFAULT_CONFIG>>,
     <<Command(<<DicePair(2, 2, "Max"), OpPair("Add"), NumberPair(1)>>,
               <<CheckerPair("Lt", 3)>>), DEFAULT_CONFIG>>,
     <<Command(<<DicePair(3, 6, "Avg"), OpPair("Minus"), DicePair(1, 2, "Min")>>,
               <<CheckerPair("Eq", 0)>>), DEFAULT_CONFIG>>,
     <<Command(<<NumberPair(1)>>, <<CheckerPair("Lte", -65537)>>), DEFAULT_CONFIG>>,
     <<Command(<<NumberPair(1)>>, <<CheckerPair("Lte", 65536)>>), DEFAULT_CONFIG>>,
     <<Command(<<NumberPair(1)>>, <<CheckerPair("Gte", I64_MIN)>>), DEFAULT_CONFIG>>,
     <<Command(<<DicePair(10, -10, "Sum")>>, <<>>), DEFAULT_CONFIG>>,
     <<Command(<<DicePair(-10, 10, "Sum")>>, <<>>), DEFAULT_CONFIG>>,
     <<Command(Repeat(DicePair(3, 6, "Sum"), "Add", 20)
                 \o <<OpPair("Add"), NumberPair(1)>>, <<>>), DEFAULT_CONFIG>>,
     <<Command(<<DicePair(10, 1001, "Sum")>>, <<>>), DEFAULT_CONFIG>>,
     <<Command(<<DicePair(1001, 10, "Sum")>>, <<>>), DEFAULT_CONFIG>>,
     <<Command(<<DicePair(1000, 10, "Sum"), OpPair("Add"),
                 DicePair(1, 10, "Sum")>>, <<>>), DEFAULT_CONFIG>>,
     <<Command(<<NumberPair(65537)>>, <<>>), DEFAULT_CONFIG>>,
     <<Command(<<NumberPair(-65537)>>, <<>>), DEFAULT_CONFIG>>,
     <<Command(Repeat(NumberPair(1), "Add", 20), <<>>), DEFAULT_CONFIG>>,
     <<Command(Repeat(NumberPair(1), "Add", 21), <<>>), DEFAULT_CONFIG>>,
     <<Command(Repeat(NumberPair(65536), "Multiply", 4), <<>>), DEFAULT_CONFIG>>,
     <<Command(<<DicePair(50, 1, "Sum"), OpPair("Add"),
                 ParenPair(<<DicePair(50, 1, "Sum")>>)>>, <<>>), DEFAULT_CONFIG>>,
     <<Command(<<DicePair(50, 1, "Sum"), OpPair("Add"),
                 ParenPair(<<DicePair(50, 1, "Sum"), OpPair("Add"),
                             DicePair(1, 1, "Sum")>>)>>, <<>>), DEFAULT_CONFIG>>,
     <<Command(<<DicePair(2, 3, "Sum"), OpPair("Multiply"),
                 ParenPair(<<DicePair(2, 3, "Sum")>>)>>, <<>>), SmallConfig>>,
     <<Command(<<DicePair(2, 3, "Sum"), OpPair("Multiply"),
                 ParenPair(<<DicePair(3, 3, "Sum")>>)>>, <<>>), SmallConfig>>,
     <<Command(<<ParenPair(<<ParenPair(<<DicePair(3, 1, "Sum")>>)>>),
                 OpPair("Minus"), DicePair(2, 1, "Sum")>>, <<>>), SmallConfig>>,
     <<Command(<<NumberPair(I64_MAX), OpPair("Add"), NumberPair(1)>>, <<>>),
       WideConfig>>,
     <<Command(<<NumberPair(I64_MIN + 1), OpPair("Minus"), NumberPair(2)>>,
               <<CheckerPair("Gt", 0)>>), WideConfig>>,
     <<Command(<<NumberPair(I64_MAX), OpPair("Multiply"), NumberPair(1)>>, <<>>),
       WideConfig>>,
     <<Command(<<DicePair(I64_MAX, 1, "Sum"), OpPair("Add"),
                 DicePair(I64_MAX, 1, "Sum"), OpPair("Add"),
                 DicePair(2, 1, "Sum")>>, <<>>), WideConfig>>,
     <<Command(<<DicePair(I64_MAX, 1, "Sum"), OpPair("Add"),
                 DicePair(I64_MAX, 1, "Sum")>>, <<>>), WideConfig>>,
     <<Command(<<NumberPair(1), OpPair("Add"), NumberPair(I64_MIN),
                 OpPair("Add"), DicePair(-1, 1, "Sum")>>, <<>>), DEFAULT_CONFIG>>,
     <<Command(<<NumberPair(1), OpPair("Add"), NumberPair(1), OpPair("Add"),
                 NumberPair(9)>>, <<>>), SmallConfig>>,
     <<Command(<<NumberPair(1), OpPair("Add"), NumberPair(1), OpPair("Add"),
                 DicePair(1, 9, "Sum")>>, <<>>), SmallConfig>>,
     <<Command(<<NumberPair(1), OpPair("Add"), NumberPair(1), OpPair("Add"),
                 DicePair(1, 1, "Sum")>>, <<>>), SmallConfig>>,
     <<Command(<<DicePair(3, 1, "Sum"), OpPair("Add"), NumberPair(1),
                 OpPair("Add"), DicePair(3, 1, "Sum")>>, <<>>), SmallConfig>>,
     <<Command(<<DicePair(3, 1, "Sum"), OpPair("Add"), DicePair(3, 1, "Sum")>>,
               <<>>), SmallConfig>>,
     <<Command(<<DicePair(9, 9, "Sum"), OpPair("Add"), NumberPair(9)>>, <<>>),
       SmallConfig>>,
     <<Command(<<ParenPair(<<NumberPair(1), OpPair("Add"), NumberPair(9)>>),
                 OpPair("Add"), DicePair(1, 9, "Sum")>>, <<>>), SmallConfig>>,
     <<Command(<<DicePair(1, 9, "Sum")>>, <<CheckerPair("Gte", 9)>>),
       SmallConfig>>,
     <<Command(<<DicePair(1, 3, "Sum")>>, <<CheckerPair("Gte", 9)>>),
       SmallConfig>>,
     <<Command(<<DicePair(3, I64_MAX, "Sum")>>, <<>>), WideConfig>>,
     <<Command(<<DicePair(2, I64_MAX, "Avg"), OpPair("Add"),
                 DicePair(2, 5, "Min")>>, <<>>), WideConfig>>}

Inputs == {<<c, DEFAULT_CONFIG>> : c \in GenCommands} \cup Curated

Init == InitRun(Inputs, 1)

Spec == Init /\ [][Next]_vars

(***************************************************************************)
(* SpecRace: GurgleRoll is Sync, so NumThreads threads may hold the same   *)
(* result and read it at once; cache_it's accesses interleave.             *)
(***************************************************************************)
NumThreads == 2

\* "1d2", "2d2max*2>=2"
RaceInputs ==
    {<<Command(<<DicePair(1, 2, "Sum")>>, <<>>), DEFAULT_CONFIG>>,
     <<Command(<<DicePair(2, 2, "Max"), OpPair("Multiply"), NumberPair(2)>>,
               <<CheckerPair("Gte", 2)>>), DEFAULT_CONFIG>>}

InitRace == InitRun(RaceInputs, NumThreads)

SpecRace == InitRace /\ [][Next]_vars

(***************************************************************************)
(* Properties of compiling, rolling and reading.                           *)
(***************************************************************************)

\* C1: concurrent value() calls on a node whose cache is empty race safely:
\* the pointer in a cache slot is never freed (every non-null slot points
\* to a live box), a thread that loses the race frees only the box it
\* allocated itself, and no read or free touches a freed box.
C1_RaceSafe ==
    /\ \A id \in DOMAIN cache : cache[id] # 0 => heap[cache[id]].live
    /\ \A p \in DOMAIN heap : ~heap[p].live => heap[p].freed_by = heap[p].by
    /\ ~ub

\* C2: value() of the result of a successfully compiled command, under any
\* Config, returns a number: no operation on the way panics or overflows.
C2_NeverOverflows ==
    lastRead.op = "value" => ~lastRead.v.panic /\ ~lastRead.v.wrap

C4_RollTimesTotal ==
    stage \in {"compiled", "rolled"}
        => RollSize(gurgle.expr) <= config.max_roll_times

\* C9: success() is None exactly when the command has no checker, and
\* otherwise Some of the checker's comparison applied to the number value()
\* reports: "10>=10" gives Some(true), "9>10" gives Some(false).
C9_SuccessIsCheckOfValue ==
    LET value == heap[cache[G]].val.v
        c == cmd.checker[1]
    IN  /\ (lastRead.op = "success" /\ ~lastRead.v.panic) =>
              IF cmd.checker = <<>> THEN lastRead.out = <<>>
              ELSE /\ cache[G] # 0
                   /\ lastRead.out =
                        << CASE c.compare = "Gte" -> value >= c.target
                             [] c.compare = "Gt" -> value > c.target
                             [] c.compare = "Lte" -> value <= c.target
                             [] c.compare = "Lt" -> value < c.target
                             [] c.compare = "Eq" -> value = c.target >>
                   /\ (first[G] # <<>> => first[G][1] = value)
                   /\ (cmd.expr = <<NumberPair(10)>> /\ c = CheckerPair("Gte", 10)
                         => lastRead.out = <<TRUE>>)
                   /\ (cmd.expr = <<NumberPair(9)>> /\ c = CheckerPair("Gt", 10)
                         => lastRead.out = <<FALSE>>)
        /\ (lastRead.op = "value" /\ lastRead.id = G /\ ~lastRead.v.panic)
              => lastRead.v.v = value

C9_Witness ==
    /\ cmd = Command(<<NumberPair(9)>>, <<CheckerPair("Gt", 10)>>)
    /\ lastRead.op = "success"
    /\ lastRead.out = <<FALSE>>
    /\ first[G] = <<9>>

\* C10: every read of value() on a node (the result, a sub-tree, a dice
\* roll) returns the number the first read of that node returned.
C10_ReadsAgree ==
    (lastRead.op = "value" /\ ~lastRead.v.panic)
        => lastRead.v.v = first[lastRead.id][1]

\* C11: memoization.  A cache slot that holds a pointer is never cleared or
\* overwritten; a read that finds the slot of its node non-empty goes on to
\* read the box and neither runs the node's computation nor allocates; and
\* no caller computes the same node twice (a box is the outcome of one
\* computation).
C11_Memoized ==
    /\ [](\A p, q \in DOMAIN heap :
            (p # q /\ heap[p].id = heap[q].id) => heap[p].by # heap[q].by)
    /\ [][/\ \A id \in DOMAIN cache :
               (cache[id] # 0 /\ groll' = groll) => cache'[id] = cache[id]
          /\ \A t \in DOMAIN th :
               (/\ th[t].stack # <<>>
                /\ Top(t).pc = "load"
                /\ cache[Top(t).id] # 0
                /\ th'[t] # th[t])
               => /\ Len(th'[t].stack) = Len(th[t].stack)
                  /\ th'[t].stack[Len(th[t].stack)].pc = "deref"
                  /\ th'[t].stack[Len(th[t].stack)].x = cache[Top(t).id]
                  /\ heap' = heap]_vars

C11_Witness ==
    \E t \in DOMAIN th :
        /\ th[t].stack # <<>>
        /\ Top(t).pc = "deref"
        /\ th[t].reads = 2
        /\ cache[Top(t).id] = Top(t).x

\* C12: the roll of a dice of times n >= 1 and sided s >= 1 is a DiceRoll of
\* exactly n points, each in 1..s, with the dice's post processor.
C12_DiceRollPoints ==
    LET RECURSIVE Rolled(_, _)
        Rolled(a, r) ==
            IF a.node = "Tree"
            THEN Rolled(a.left, r.left) /\ Rolled(a.right, r.right)
            ELSE CASE a.item.item = "Dice" ->
                        /\ a.item.times >= 1 /\ a.item.sided >= 1
                        /\ r.item.item = "Dice"
                        /\ DOMAIN r.item.points = 1..a.item.times
                        /\ \A i \in DOMAIN r.item.points :
                             r.item.points[i] \in 1..a.item.sided
                        /\ r.item.pp = a.item.pp
                   [] a.item.item = "Number" -> TRUE
                   [] a.item.item = "Parentheses" -> Rolled(a.item.e, r.item.e)
    IN  stage = "rolled" => Rolled(gurgle.expr, groll.result)

C12_Witness ==
    /\ stage = "rolled"
    /\ gurgle.expr.node = "Tree"
    /\ gurgle.expr.left = Leaf(Dice(3, 6, "Avg"))
    /\ groll.result.left = Leaf(DiceRoll(<<6, 1, 6>>, "Avg"))

\* C13: a finished value() of a dice roll of n >= 1 points in 1..s is: for
\* Sum the arithmetic sum, within n..n*s; for Max and Min the largest and
\* the smallest point, within 1..s; for Avg the floor of sum / n, within
\* 1..s.
C13_Reductions ==
    (/\ stage = "rolled"
     /\ lastRead.op = "value"
     /\ Kind(groll.result, lastRead.id) = "Dice")
    => LET d == At(groll.result, lastRead.id).item
           s == At(gurgle.expr, lastRead.id).item.sided
           n == Len(d.points)
           RECURSIVE Sum(_)
           Sum(k) == IF k = 0 THEN 0 ELSE Sum(k - 1) + d.points[k]
           v == lastRead.v.v
       IN  /\ ~lastRead.v.panic
           /\ CASE d.pp = "Sum" -> v = Sum(n) /\ n <= v /\ v <= n * s
                [] d.pp = "Avg" -> v = Sum(n) \div n /\ 1 <= v /\ v <= s
                [] d.pp = "Max" ->
                     /\ \E i \in 1..n : v = d.points[i]
                     /\ \A i \in 1..n : d.points[i] <= v
                     /\ 1 <= v /\ v <= s
                [] d.pp = "Min" ->
                     /\ \E i \in 1..n : v = d.points[i]
                     /\ \A i \in 1..n : d.points[i] >= v
                     /\ 1 <= v /\ v <= s

\* C14: the value of a compiled command of number items only (any mix of
\* operators and parentheses) is the same at every evaluation and is the
\* arithmetic value of its literals, Multiply before Add and Minus and
\* parentheses first; "(1+2)*3" gives 9.
C14_NumbersOnly ==
    LET RECURSIVE NoDice(_)
        NoDice(pairs) ==
            \A i \in DOMAIN pairs :
                CASE pairs[i].rule = "dice" -> FALSE
                  [] pairs[i].rule = "expr" -> NoDice(pairs[i].inner)
                  [] OTHER -> TRUE
        RECURSIVE Arith(_, _, _, _)
        RECURSIVE ItemValue(_)
        ItemValue(p) ==
            IF p.rule = "number" THEN p.x
            ELSE Arith(p.inner, 2, 0, ItemValue(p.inner[1]))
        \* sum is the terms closed so far, term the product being built
        Arith(pairs, i, sum, term) ==
            IF i > Len(pairs) THEN sum + term
            ELSE CASE pairs[i].op = "Multiply" ->
                        Arith(pairs, i + 2, sum, term * ItemValue(pairs[i + 1]))
                   [] pairs[i].op = "Add" ->
                        Arith(pairs, i + 2, sum + term, ItemValue(pairs[i + 1]))
                   [] pairs[i].op = "Minus" ->
                        Arith(pairs, i + 2, sum + term, 0 - ItemValue(pairs[i + 1]))
    IN  (/\ stage = "rolled"
         /\ NoDice(cmd.expr))
        => /\ Cardinality(AstTreeNode_roll(gurgle.expr)) = 1
           /\ (lastRead.op = "value" /\ lastRead.id = G)
              => /\ ~lastRead.v.panic
                 /\ ~lastRead.v.wrap
                 /\ lastRead.v.v = Arith(cmd.expr, 2, 0, ItemValue(cmd.expr[1]))
                 /\ (cmd.expr = <<ParenPair(<<NumberPair(1), OpPair("Add"),
                                             NumberPair(2)>>),
                                  OpPair("Multiply"), NumberPair(3)>>
                       => lastRead.v.v = 9)

MaxRolls == 2

\* GurgleRoll::new, DiceRoll::new, BinaryTree::new: every cache
\* AtomicPtr::default()
GurgleRoll_new(result, checker) ==
    [result |-> result, checker |-> checker,
     cache |-> [id \in CachingIds(result) |-> <<>>]]

\* DiceRoll::value by one caller: the value and the caches after the call
DiceRoll_value(root, pos, c) ==
    LET v == DiceRoll_calculate_value(At(root, pos).item)
    IN  IF c[pos] # <<>> THEN [v |-> c[pos][1], cache |-> c]
        ELSE [v |-> v, cache |-> IF v.panic THEN c ELSE [c EXCEPT ![pos] = <<v>>]]

\* RollTreeNode::value by one caller (ItemRoll::value, RollTree::value)
RECURSIVE RollTreeNode_value(_, _, _)
RollTreeNode_value(root, pos, c) ==
    CASE Kind(root, pos) = "Number" -> [v |-> Val(At(root, pos).item.x), cache |-> c]
      [] Kind(root, pos) = "Parentheses" ->
           RollTreeNode_value(root, Append(pos, "P"), c)
      [] Kind(root, pos) = "Dice" ->
           LET d == DiceRoll_value(root, pos, c)
           IN  [v |-> IF d.v.panic THEN Panic ELSE DiceAsI64(d.v), cache |-> d.cache]
      [] Kind(root, pos) = "Tree" ->
           IF c[pos] # <<>> THEN [v |-> c[pos][1], cache |-> c]
           ELSE LET l == RollTreeNode_value(root, Append(pos, "L"), c)
                    r == RollTreeNode_value(root, Append(pos, "R"), l.cache)
                    x == RollTree_calculate_value(At(root, pos).mid, l.v, r.v)
                IN  IF l.v.panic THEN l
                    ELSE IF r.v.panic THEN r
                    ELSE [v |-> x,
                          cache |-> IF x.panic THEN r.cache
                                    ELSE [r.cache EXCEPT ![pos] = <<x>>]]

\* GurgleRoll::value by one caller
GurgleRoll_value(g) ==
    LET r == RollTreeNode_value(g.result, <<>>, g.cache)
    IN  IF g.cache[G] # <<>> THEN [v |-> g.cache[G][1], cache |-> g.cache]
        ELSE [v |-> r.v,
              cache |-> IF r.v.panic THEN r.cache
                        ELSE [r.cache EXCEPT ![G] = <<r.v>>]]

\* (mutant) the new result takes over the caches of the one before it
GurgleRoll_Mut ==
    /\ stage = "compiled"
    /\ Len(rolls) < MaxRolls
    /\ RollSize(gurgle.expr) <= MaxPoints
    /\ \E r \in AstTreeNode_roll(gurgle.expr) :
         rolls' = Append(rolls,
                         IF rolls = <<>> THEN GurgleRoll_new(r, gurgle.checker)
                         ELSE [GurgleRoll_new(r, gurgle.checker)
                                  EXCEPT !.cache = rolls[Len(rolls)].cache])
    /\ UNCHANGED <<lang, overflow_checks, limit, call, chk, cmd, config, stage,
                   gurgle, groll, cache, heap, th, first, lastRead, ub>>

\* Gurgle::roll(&self), once more
GurgleRoll ==
    /\ stage = "compiled"
    /\ Len(rolls) < MaxRolls
    /\ RollSize(gurgle.expr) <= MaxPoints
    /\ \E r \in AstTreeNode_roll(gurgle.expr) :
         rolls' = Append(rolls, GurgleRoll_new(r, gurgle.checker))
    /\ UNCHANGED <<lang, overflow_checks, limit, call, chk, cmd, config, stage,
                   gurgle, groll, cache, heap, th, first, lastRead, ub>>

\* value() of result k, of one of its trees or of one of its dice rolls
ReadValue ==
    \E k \in DOMAIN rolls : \E id \in DOMAIN rolls[k].cache :
        LET g == rolls[k]
            o == IF id = G THEN GurgleRoll_value(g)
                 ELSE IF Kind(g.result, id) = "Dice"
                      THEN DiceRoll_value(g.result, id, g.cache)
                 ELSE RollTreeNode_value(g.result, id, g.cache)
        IN  /\ rolls' = [rolls EXCEPT ![k].cache = o.cache]
            /\ lastRead' = [t |-> k, op |-> "value", id |-> id, v |-> o.v,
                            out |-> <<>>]
            /\ UNCHANGED <<lang, overflow_checks, limit, call, chk, cmd, config,
                           stage, gurgle, groll, cache, heap, th, first, ub>>

\* success() of result k
ReadSuccess ==
    \E k \in DOMAIN rolls :
        LET g == rolls[k]
            o == GurgleRoll_value(g)
        IN  /\ IF g.checker = <<>>
               THEN /\ rolls' = rolls
                    /\ lastRead' = [t |-> k, op |-> "success", id |-> G,
                                    v |-> Val(0), out |-> <<>>]
               ELSE /\ rolls' = [rolls EXCEPT ![k].cache = o.cache]
                    /\ lastRead' = [t |-> k, op |-> "success", id |-> G,
                                    v |-> o.v,
                                    out |-> IF o.v.panic THEN <<>>
                                            ELSE <<Checker_check(g.checker[1],
                                                                 o.v.v)>>]
            /\ UNCHANGED <<lang, overflow_checks, limit, call, chk, cmd, config,
                           stage, gurgle, groll, cache, heap, th, first, ub>>

\* "1d2+1", "2d2max*2>=2", "1d2*(1d2-3)<0", "2-3"
RollInputs ==
    {<<Command(<<DicePair(1, 2, "Sum"), OpPair("Add"), NumberPair(1)>>, <<>>),
       DEFAULT_CONFIG>>,
     <<Command(<<DicePair(2, 2, "Max"), OpPair("Multiply"), NumberPair(2)>>,
               <<CheckerPair("Gte", 2)>>), DEFAULT_CONFIG>>,
     <<Command(<<DicePair(1, 2, "Sum"), OpPair("Multiply"),
                 ParenPair(<<DicePair(1, 2, "Sum"), OpPair("Minus"),
                             NumberPair(3)>>)>>,
               <<CheckerPair("Lt", 0)>>), DEFAULT_CONFIG>>,
     <<Command(<<NumberPair(2), OpPair("Minus"), NumberPair(3)>>, <<>>),
       DEFAULT_CONFIG>>}

InitRolls == InitRun(RollInputs, 0)

NextRolls == Compile \/ GurgleRoll \/ ReadValue \/ ReadSuccess

SpecRolls == InitRolls /\ [][NextRolls]_vars

\* C16: rolling and reading never change the compiled command (its expr and
\* checker stay what compile produced); each roll() gives a new result whose
\* caches all start empty and leaves the results rolled before as they are;
\* a read changes nothing but caches of the result it reads, and no points.
C16_RollLeavesCommand ==
    /\ [](stage = "compiled" =>
            /\ gurgle = compile_with_config(cmd, config)
            /\ \A k \in DOMAIN rolls : rolls[k].checker = gurgle.checker)
    /\ [][/\ stage = "compiled" => gurgle' = gurgle
          /\ Len(rolls') > Len(rolls) =>
               /\ \A id \in DOMAIN rolls'[Len(rolls')].cache :
                    rolls'[Len(rolls')].cache[id] = <<>>
               /\ \A k \in DOMAIN rolls : rolls'[k] = rolls[k]
          /\ Len(rolls') = Len(rolls) =>
               \A k \in DOMAIN rolls :
                    /\ rolls'[k].result = rolls[k].result
                    /\ (lastRead' = lastRead \/ lastRead'.t # k)
                          => rolls'[k] = rolls[k]]_vars

C16_Witness ==
    /\ Len(rolls) = 2
    /\ rolls[1].cache[G] # <<>>
    /\ \A id \in DOMAIN rolls[2].cache : rolls[2].cache[id] = <<>>
    /\ rolls[1].result # rolls[2].result
    /\ lastRead.t = 1

\* C17: once the expression has compiled, compile fails with
\* NumberItemOutOfRange if and only if |target| > max_number_item_value
\* and succeeds otherwise, so a compiled command never holds a checker whose
\* |target| exceeds the limit.
C17_TargetBound ==
    (/\ stage \in {"compiled", "failed", "rolled"}
     /\ cmd.checker # <<>>
     /\ from_pair(cmd.expr, LimitNew(config)).res = "Ok")
    => LET target == cmd.checker[1].target
           over == (IF target < 0 THEN 0 - target ELSE target)
                       > config.max_number_item_value
       IN  /\ gurgle.res = IF over THEN "NumberItemOutOfRange" ELSE "Ok"
           /\ gurgle.res = "Ok" =>
                /\ gurgle.checker = <<[compare |-> cmd.checker[1].compare,
                                       target |-> target]>>
                /\ ~over

(***************************************************************************)
(* SpecConfig: a Config is made by Config::default() and handed through    *)
(* any sequence of its four setters.                                       *)
(***************************************************************************)
ConfigArgs == {0, 1, 20, U64_MAX}

InitConfig ==
    /\ overflow_checks \in BOOLEAN
    /\ limit = LimitNew(DEFAULT_CONFIG)
    /\ call = [NoCall EXCEPT !.op = "default"]
    /\ chk = <<>>
    /\ NoRoll
    /\ lang = <<>>

MaxItemCount ==
    /\ \E c \in ConfigArgs :
         /\ config' = SetMaxItemCount(config, c)
         /\ call' = [call EXCEPT !.op = "max_item_count", !.a = c]
    /\ UNCHANGED <<lang, overflow_checks, limit, chk, cmd, stage, gurgle, groll,
                   cache, heap, th, first, lastRead, ub, rolls>>

MaxDiceSides ==
    /\ \E c \in ConfigArgs :
         /\ config' = SetMaxDiceSides(config, c)
         /\ call' = [call EXCEPT !.op = "max_dice_sides", !.a = c]
    /\ UNCHANGED <<lang, overflow_checks, limit, chk, cmd, stage, gurgle, groll,
                   cache, heap, th, first, lastRead, ub, rolls>>

MaxRollTimes ==
    /\ \E c \in ConfigArgs :
         /\ config' = SetMaxRollTimes(config, c)
         /\ call' = [call EXCEPT !.op = "max_roll_times", !.a = c]
    /\ UNCHANGED <<lang, overflow_checks, limit, chk, cmd, stage, gurgle, groll,
                   cache, heap, th, first, lastRead, ub, rolls>>

MaxNumberItemValue ==
    /\ \E c \in ConfigArgs :
         /\ config' = SetMaxNumberItemValue(config, c)
         /\ call' = [call EXCEPT !.op = "max_number_item_value", !.a = c]
    /\ UNCHANGED <<lang, overflow_checks, limit, chk, cmd, stage, gurgle, groll,
                   cache, heap, th, first, lastRead, ub, rolls>>

NextConfig == MaxItemCount \/ MaxDiceSides \/ MaxRollTimes \/ MaxNumberItemValue

SpecConfig == InitConfig /\ [][NextConfig]_vars

\* C18: Config::default() is {20, 1000, 100, 65536}; a setter call gives a
\* config whose named field is the value given and whose other three fields
\* are those of its input; setters of different fields commute and of two
\* calls of one setter the later value stays.
C18_ConfigSetters ==
    [][LET Fields == {"max_item_count", "max_dice_sides", "max_roll_times",
                      "max_number_item_value"}
           Set(f, self, c) ==
               CASE f = "max_item_count" -> SetMaxItemCount(self, c)
                 [] f = "max_dice_sides" -> SetMaxDiceSides(self, c)
                 [] f = "max_roll_times" -> SetMaxRollTimes(self, c)
                 [] f = "max_number_item_value" -> SetMaxNumberItemValue(self, c)
       IN  /\ call.op = "default" =>
                /\ config.max_item_count = 20
                /\ config.max_dice_sides = 1000
                /\ config.max_roll_times = 100
                /\ config.max_number_item_value = 65536
           /\ DOMAIN config' = Fields
           /\ call'.op \in Fields
           /\ config'[call'.op] = call'.a
           /\ \A f \in Fields \ {call'.op} : config'[f] = config[f]
           /\ \A f, g \in Fields : \A a, b \in ConfigArgs :
                /\ f # g => Set(f, Set(g, config', a), b)
                              = Set(g, Set(f, config', b), a)
                /\ Set(f, Set(f, config', a), b)[f] = b
                /\ Set(f, Set(f, config', a), b) = Set(f, config', b)]_vars

C18_Witness ==
    /\ call.op = "max_dice_sides"
    /\ call.a = 1
    /\ config = Config(0, 1, U64_MAX, 65536)

(***************************************************************************)
(* SpecLang: detail.rs, the language of the detailed output.  WANTED_LANG  *)
(* and CUSTOM_LANG_PTR are atomics, LANG is a once_cell Lazy initialised   *)
(* by the first Display of a GurgleRoll that has a checker.                *)
(***************************************************************************)
Languages == {"EN", "ZhCN", "Custom"}
MaxOutputs == 3
MaxCustomCalls == 2

\* The statics at program start; pc is where a running set_global_custom
\* stands, first_wanted the value of WANTED_LANG at the first output.
LangStart ==
    [wanted |-> "EN", ptr |-> 0, lazy |-> "uninit", pc |-> "idle",
     customs |-> 0, outputs |-> 0, first_wanted |-> <<>>,
     last |-> [op |-> "none", arg |-> "none", used |-> <<>>, panic |-> FALSE]]

\* Deref of LANG: the value it has, or the one its closure makes now; the
\* closure panics (and poisons the Lazy) on Custom with a null pointer.
LANG(l) ==
    IF l.lazy # "uninit" THEN l.lazy
    ELSE IF l.wanted = "Custom"
         THEN IF l.ptr = 0 THEN "poisoned" ELSE "Custom"
    ELSE l.wanted

InitLang ==
    /\ overflow_checks \in BOOLEAN
    /\ limit = LimitNew(DEFAULT_CONFIG)
    /\ call = NoCall
    /\ chk = <<>>
    /\ NoRoll
    /\ lang = LangStart

\* Language::set_global(lang)
SetGlobal ==
    /\ \E l \in Languages :
         lang' = [lang EXCEPT
                    !.wanted = IF l = "Custom" THEN @ ELSE l,
                    !.last = [op |-> "set_global", arg |-> l, used |-> <<>>,
                              panic |-> l = "Custom"]]
    /\ UNCHANGED <<overflow_checks, limit, call, chk, rollVars>>

\* Language::set_global_custom: WANTED_LANG.store(Custom)
SetGlobalCustomStore ==
    /\ lang.pc = "idle"
    /\ lang.customs < MaxCustomCalls
    /\ lang' = [lang EXCEPT !.wanted = "Custom", !.pc = "swap",
                            !.customs = @ + 1]
    /\ UNCHANGED <<overflow_checks, limit, call, chk, rollVars>>

\* Language::set_global_custom: CUSTOM_LANG_PTR.swap(p), panic if it was set
SetGlobalCustomSwap ==
    /\ lang.pc = "swap"
    /\ lang' = [lang EXCEPT
                  !.ptr = lang.customs, !.pc = "idle",
                  !.last = [op |-> "set_global_custom", arg |-> "Custom",
                            used |-> <<>>, panic |-> lang.ptr # 0]]
    /\ UNCHANGED <<overflow_checks, limit, call, chk, rollVars>>

\* Display for GurgleRoll: only a result with a checker reads LANG
Output ==
    /\ lang.outputs < MaxOutputs
    /\ \E checker \in BOOLEAN :
         lang' = [lang EXCEPT
                    !.outputs = @ + 1,
                    !.first_wanted = IF lang.outputs = 0 THEN <<lang.wanted>>
                                     ELSE @,
                    !.lazy = IF checker THEN LANG(lang) ELSE @,
                    !.last = [op |-> "output",
                              arg |-> IF checker THEN "checker" ELSE "none",
                              used |-> IF checker /\ LANG(lang) # "poisoned"
                                       THEN <<LANG(lang)>> ELSE <<>>,
                              panic |-> checker /\ LANG(lang) = "poisoned"]]
    /\ UNCHANGED <<overflow_checks, limit, call, chk, rollVars>>

NextLang == SetGlobal \/ SetGlobalCustomStore \/ SetGlobalCustomSwap \/ Output

SpecLang == InitLang /\ [][NextLang]_vars

\* C19: the language an output uses is the last value set before the first
\* formatted output; a set_global after the first output changes nothing.
C19_LanguageOfFirstOutput ==
    (lang.last.op = "output" /\ lang.last.used # <<>>)
        => lang.last.used[1] = lang.first_wanted[1]

\* C20: compile returns the first violation in left to right item order
\* (nested items in their place) and nothing else: within an item its own
\* validation comes before the item count, which comes before the running
\* roll times; no later item is processed and there is no compiled result;
\* the checker's target is tested only when the whole expression passed.
C20_FirstError ==
    LET Mag(x) == IF x < 0 THEN 0 - x ELSE x
        Item(p, st) ==
            LET own == IF p.rule = "number"
                       THEN IF Mag(p.x) > config.max_number_item_value
                            THEN "NumberItemOutOfRange" ELSE "Ok"
                       ELSE IF p.times <= 0 \/ p.sided <= 0
                            THEN "DiceRollOrSidedNegative"
                       ELSE IF p.times > config.max_roll_times
                            THEN "DiceRollTimesLimitExceeded"
                       ELSE IF p.sided > config.max_dice_sides
                            THEN "DiceSidedCountLimitExceeded" ELSE "Ok"
                times == IF p.rule = "dice" THEN st.times + p.times ELSE st.times
            IN  [res |-> IF own # "Ok" THEN own
                         ELSE IF st.items + 1 > config.max_item_count
                              THEN "ItemCountLimitExceeded"
                         ELSE IF times > config.max_roll_times
                              THEN "DiceRollTimesLimitExceeded" ELSE "Ok",
                 items |-> st.items + 1, times |-> times]
        RECURSIVE Scan(_, _)
        Scan(pairs, st) ==
            IF st.res # "Ok" \/ pairs = <<>> THEN st
            ELSE Scan(Tail(pairs),
                      CASE Head(pairs).rule = "operator" -> st
                        [] Head(pairs).rule = "expr" -> Scan(Head(pairs).inner, st)
                        [] OTHER -> Item(Head(pairs), st))
        e == Scan(cmd.expr, [res |-> "Ok", items |-> 0, times |-> 0])
    IN  stage \in {"compiled", "failed", "rolled"}
        => /\ gurgle.res =
                IF e.res # "Ok" THEN e.res
                ELSE IF cmd.checker # <<>>
                        /\ Mag(cmd.checker[1].target) > config.max_number_item_value
                     THEN "NumberItemOutOfRange" ELSE "Ok"
           /\ gurgle.res # "Ok" => gurgle.expr = <<>> /\ gurgle.checker = <<>>
           /\ e.res # "Ok" => gurgle.limit.item_count \in {e.items - 1, e.items}
           /\ e.res = "Ok" => gurgle.limit.item_count = e.items

\* C21: the result tree of roll() mirrors the compiled tree node for node: a
\* Leaf gives a Leaf, a Tree a Tree of the same operator with the rolls of
\* its left and right children in the same places, a Number item the same
\* number, a Dice item of times n a DiceRoll of n points and the same post
\* processor.
C21_ResultMirrorsTree ==
    LET RECURSIVE Mirror(_, _)
        Mirror(a, r) ==
            IF a.node = "Tree"
            THEN /\ r.node = "Tree"
                 /\ r.mid = a.mid
                 /\ Mirror(a.left, r.left)
                 /\ Mirror(a.right, r.right)
            ELSE /\ r.node = "Leaf"
                 /\ CASE a.item.item = "Dice" ->
                           /\ r.item.item = "Dice"
                           /\ Len(r.item.points) = a.item.times
                           /\ r.item.pp = a.item.pp
                      [] a.item.item = "Number" -> r.item = a.item
                      [] a.item.item = "Parentheses" ->
                           /\ r.item.item = "Parentheses"
                           /\ Mirror(a.item.e, r.item.e)
    IN  stage = "rolled" => Mirror(gurgle.expr, groll.result)

C21_Witness ==
    /\ stage = "rolled"
    /\ gurgle.expr.node = "Tree"
    /\ gurgle.expr.left.node = "Leaf"
    /\ gurgle.expr.left.item.item = "Dice"
    /\ gurgle.expr.left.item.times = 1
    /\ gurgle.expr.right.node = "Tree"
    /\ gurgle.expr.right.left = Leaf(Number(3))
    /\ groll.result.node = "Tree"
    /\ groll.result.left = Leaf(DiceRoll(<<2>>, "Sum"))
    /\ groll.result.right.left = Leaf(Number(3))
    /\ groll.result.right.node = "Tree"
    /\ groll.result.right.mid = gurgle.expr.right.mid

\* C22: in every state of a result, whatever reads ran or are running, a
\* cache slot that is not empty holds the value a recomputation gives (a
\* DiceRoll's: its post processor on its points; a RollTree's: left.value()
\* op right.value(); the GurgleRoll's: expr().value()), which is what every
\* read of the slot gives; and the points never change after the roll.
C22_CacheHoldsValue ==
    /\ [](LET RECURSIVE Recompute(_)
              Recompute(n) ==
                  IF n.node = "Tree"
                  THEN RollTree_calculate_value(n.mid, Recompute(n.left),
                                                Recompute(n.right))
                  ELSE CASE n.item.item = "Dice" ->
                              DiceAsI64(DiceRoll_calculate_value(n.item))
                         [] n.item.item = "Number" -> Val(n.item.x)
                         [] n.item.item = "Parentheses" -> Recompute(n.item.e)
              Expected(id) ==
                  IF id = G THEN Recompute(groll.result)
                  ELSE IF Kind(groll.result, id) = "Dice"
                       THEN DiceRoll_calculate_value(At(groll.result, id).item)
                       ELSE Recompute(At(groll.result, id))
          IN  stage = "rolled" =>
                \A id \in DOMAIN cache :
                  cache[id] # 0 =>
                    /\ ~Expected(id).panic
                    /\ \A v \in DerefValues(heap[cache[id]]) :
                         v.v = Expected(id).v)
    /\ [][stage = "rolled" => groll' = groll]_vars

\* C23: an output that initialises LANG while set_global_custom is running
\* never panics: whenever WANTED_LANG is seen to be Custom, CUSTOM_LANG_PTR
\* has been stored and is not null.
C23_CustomInitNeverPanics ==
    /\ (lang # <<>> /\ lang.wanted = "Custom") => lang.ptr # 0
    /\ (lang # <<>> /\ lang.last.op = "output") => ~lang.last.panic

\* C24: the counters of a Limit only grow and failures are sticky.  An
\* increment, failing or not, leaves its counter at the incremented value;
\* once inc_item_count (inc_roll_times) has returned an error, every later
\* inc_item_count (inc_roll_times) and every later check() returns an error;
\* check_number_item, check_dice and check leave both counters as they were.
C24_CountersSticky ==
    /\ [][/\ limit'.item_count >= limit.item_count
          /\ limit'.roll_times >= limit.roll_times
          /\ call'.incs = call.incs + 1
                => limit'.item_count = limit.item_count + 1
          /\ call'.rincs = call.rincs + 1
                => limit'.roll_times = limit.roll_times + call'.a
          /\ call'.op \in {"check_number_item", "check_dice", "check"}
                => limit' = limit]_vars
    /\ []((call.op = "inc_item_count" /\ call.res = "ItemCountLimitExceeded")
            => [](call.op \in {"inc_item_count", "check"}
                    => call.res = "ItemCountLimitExceeded"))
    /\ []((call.op = "inc_roll_times"
             /\ call.res = "DiceRollTimesLimitExceeded")
            => [](call.op \in {"inc_roll_times", "check"}
                    => call.res \in {"ItemCountLimitExceeded",
                                     "DiceRollTimesLimitExceeded"}))

====
